---- MODULE Spec2Model ----
(***************************************************************************)
(* Bookstore REST API: the book and user controllers, the isAuthenticated  *)
(* middleware, the routes that chain them and the JSON file store.         *)
(*                                                                         *)
(* Text is a sequence of one-character strings, so that toLowerCase, trim, *)
(* includes, parseInt and the regular expressions are computed, not        *)
(* assumed.  A JavaScript value is a record [t, s, n]: its type tag, its   *)
(* characters when it is a string and its value when it is a number.       *)
(* Identifiers (uuidv4) are drawn from counters and never repeat.          *)
(* Each action is one HTTP request served from the first middleware to the *)
(* response; createdAt/updatedAt timestamps are not modelled.  In SpecRace *)
(* a request that writes is two steps, its read and its write, and         *)
(* inflight is the table of those requests with the position of each; a    *)
(* writeFile is one step.  call and ret are the argument and the result of *)
(* a function applied on its own (SpecPassword, SpecRoundTrip).            *)
(***************************************************************************)
EXTENDS Integers, Sequences, FiniteSets, TLC

VARIABLES usersFile, booksFile, issued, userIds, bookIds, env, req, res,
          inflight, call, ret

vars == <<usersFile, booksFile, issued, userIds, bookIds, env, req, res,
          inflight, call, ret>>

(***************************************************************************)
(* Bounds of the model.                                                    *)
(***************************************************************************)
MaxUsers == 2
MaxQueryBooks == 3
MaxBookIds == 2
MaxPasswordLen == 6
MaxStoreBooks == 1
MaxDocLen == 2

(***************************************************************************)
(* JavaScript values.                                                      *)
(***************************************************************************)
Undefined == [t |-> "undefined", s |-> <<>>, n |-> 0]
NaN == [t |-> "NaN", s |-> <<>>, n |-> 0]
Null == [t |-> "null", s |-> <<>>, n |-> 0]
Str(s) == [t |-> "string", s |-> s, n |-> 0]
Num(n) == [t |-> "number", s |-> <<>>, n |-> n]

\* Truthy taking every value that was sent as true
TruthyWhenSent(v) == v.t # "undefined"

\* if (v), !v, v && ...
Truthy(v) ==
  CASE v.t = "string" -> v.s # <<>>
    [] v.t = "number" -> v.n # 0
    [] OTHER -> FALSE

IsString(v) == v.t = "string"

Whitespace == {" "}
Digits == {"0", "1", "2", "3", "4", "5", "6", "7", "8", "9"}
DigitValue ==
  [c \in Digits |->
     CASE c = "0" -> 0 [] c = "1" -> 1 [] c = "2" -> 2 [] c = "3" -> 3
       [] c = "4" -> 4 [] c = "5" -> 5 [] c = "6" -> 6 [] c = "7" -> 7
       [] c = "8" -> 8 [] c = "9" -> 9]
UpperCase ==
  <<"A", "B", "C", "D", "E", "F", "G", "H", "I", "J", "K", "L", "M",
    "N", "O", "P", "Q", "R", "S", "T", "U", "V", "W", "X", "Y", "Z">>
LowerCase ==
  <<"a", "b", "c", "d", "e", "f", "g", "h", "i", "j", "k", "l", "m",
    "n", "o", "p", "q", "r", "s", "t", "u", "v", "w", "x", "y", "z">>
Range(f) == {f[i] : i \in DOMAIN f}
Letters == Range(UpperCase) \cup Range(LowerCase)

\* String.prototype.toLowerCase, one character
ToLowerChar(c) ==
  IF c \in Range(UpperCase)
  THEN LowerCase[CHOOSE i \in DOMAIN UpperCase : UpperCase[i] = c]
  ELSE c

\* String.prototype.toLowerCase
toLowerCase(s) == [i \in 1..Len(s) |-> ToLowerChar(s[i])]

RECURSIVE TrimStart(_)
TrimStart(s) ==
  IF s # <<>> /\ Head(s) \in Whitespace THEN TrimStart(Tail(s)) ELSE s

RECURSIVE TrimEnd(_)
TrimEnd(s) ==
  IF s # <<>> /\ s[Len(s)] \in Whitespace
  THEN TrimEnd(SubSeq(s, 1, Len(s) - 1))
  ELSE s

\* String.prototype.trim
trim(s) == TrimEnd(TrimStart(s))

\* String.prototype.includes
includes(s, part) ==
  \E i \in 0..(Len(s) - Len(part)) : SubSeq(s, i + 1, i + Len(part)) = part

RECURSIVE DigitPrefix(_)
DigitPrefix(s) ==
  IF s # <<>> /\ Head(s) \in Digits
  THEN <<Head(s)>> \o DigitPrefix(Tail(s))
  ELSE <<>>

RECURSIVE DecimalValue(_)
DecimalValue(ds) ==
  IF ds = <<>> THEN 0
  ELSE 10 * DecimalValue(SubSeq(ds, 1, Len(ds) - 1)) + DigitValue[ds[Len(ds)]]

\* parseInt(string, 10): leading white space is skipped, then an optional
\* sign, then the longest run of digits; no digit at all gives NaN and
\* whatever follows the digits is ignored.
parseInt(s) ==
  LET t == TrimStart(s)
      neg == t # <<>> /\ Head(t) = "-"
      u == IF t # <<>> /\ Head(t) \in {"-", "+"} THEN Tail(t) ELSE t
      ds == DigitPrefix(u)
  IN IF ds = <<>> THEN NaN
     ELSE Num(IF neg THEN 0 - DecimalValue(ds) ELSE DecimalValue(ds))

\* parseInt of any value: a number is first turned into its decimal text
parseIntValue(v) ==
  CASE v.t = "string" -> parseInt(v.s)
    [] v.t = "number" -> v
    [] OTHER -> NaN

\* a < b on numbers: every comparison with NaN is false
JsLess(a, b) == a.t = "number" /\ b.t = "number" /\ a.n < b.n

JsMul(a, b) == IF a.t = "number" /\ b.t = "number" THEN Num(a.n * b.n) ELSE NaN
JsAdd(a, b) == IF a.t = "number" /\ b.t = "number" THEN Num(a.n + b.n) ELSE NaN
JsSub(a, b) == IF a.t = "number" /\ b.t = "number" THEN Num(a.n - b.n) ELSE NaN

\* Math.ceil(a / b) for an integer a and an integer b >= 1 (or NaN)
JsCeilDiv(a, b) ==
  IF a.t = "number" /\ b.t = "number" /\ b.n > 0
  THEN Num(0 - ((0 - a.n) \div b.n))
  ELSE NaN

\* JSON.stringify writes NaN as null
ToJSON(v) == IF v.t = "NaN" THEN Null ELSE v

(***************************************************************************)
(* The JSON file store (utils/file.utils.ts).  A file is absent, holds a   *)
(* document (st = "ok") or holds text that JSON.parse rejects.             *)
(***************************************************************************)
AbsentFile == [st |-> "absent", data |-> <<>>]

\* a file whose text JSON.parse rejects (a write cut short by a crash)
CorruptFile == [st |-> "corrupt", data |-> <<>>]

\* JSON.stringify of one record of a collection
Stringify(r) ==
  IF "publishedYear" \in DOMAIN r
  THEN [r EXCEPT !.publishedYear = ToJSON(@)]
  ELSE r

\* writeJSONFile: the whole document replaces the file's content
writeJSONFile(content) ==
  [st |-> "ok", data |-> [i \in 1..Len(content) |-> Stringify(content[i])]]

\* readJSONFile throws when the file is absent or not valid JSON
readThrows(file) == file.st # "ok"

\* readJSONFile, when it does not throw
readJSONFile(file) == file.data

\* initializeBooksFile / initializeUsersFile: a failed read writes { [] }
initializeFile(file) == IF readThrows(file) THEN writeJSONFile(<<>>) ELSE file

(***************************************************************************)
(* Tokens (jsonwebtoken) and the isAuthenticated middleware.               *)
(***************************************************************************)
NoToken == [userId |-> 0, email |-> <<>>, key |-> "", expired |-> FALSE]
NoUser == [userId |-> 0, email |-> <<>>]
ForgedKey == "attacker-key"

\* const JWT_SECRET = process.env.JWT_SECRET || "your-secret-key"
JWT_SECRET == IF env.JWT_SECRET = "unset" THEN "your-secret-key" ELSE env.JWT_SECRET

\* jwt.sign({userId, email}, secret, {expiresIn: "24h"})
jwtSign(userId, email, secret) ==
  [userId |-> userId, email |-> email, key |-> secret, expired |-> FALSE]

\* jwt.verify(token, secret, callback) calls back without an error
jwtVerify(token, secret) ==
  /\ secret # "unset"
  /\ token.key = secret
  /\ ~token.expired

Response(status, message) ==
  [status |-> status, message |-> message, books |-> <<>>,
   pagination |-> Null, users |-> <<>>, token |-> NoToken, cookie |-> NoToken,
   by |-> "controller"]

\* the cookie that isAuthenticated reads the token from
TokenOf(cookie, authorization) == cookie

\* isAuthenticated putting the first user on req.user whatever the token says
isAuthenticatedAsFirst(cookie, authorization) ==
  LET token == TokenOf(cookie, authorization)
  IN IF token = NoToken
     THEN [err |-> TRUE, status |-> 401, message |-> "You should sign in first",
           user |-> NoUser]
     ELSE IF ~jwtVerify(token, env.JWT_SECRET)
     THEN [err |-> TRUE, status |-> 403, message |-> "Token is not valid",
           user |-> NoUser]
     ELSE [err |-> FALSE, status |-> 0, message |-> "",
           user |-> [userId |-> 1, email |-> token.email]]

\* isAuthenticated: the error handed to next(), or the user put on req.user
isAuthenticated(cookie, authorization) ==
  LET token == TokenOf(cookie, authorization)
  IN IF token = NoToken
     THEN [err |-> TRUE, status |-> 401, message |-> "You should sign in first",
           user |-> NoUser]
     ELSE IF ~jwtVerify(token, env.JWT_SECRET)
     THEN [err |-> TRUE, status |-> 403, message |-> "Token is not valid",
           user |-> NoUser]
     ELSE [err |-> FALSE, status |-> 0, message |-> "",
           user |-> [userId |-> token.userId, email |-> token.email]]

\* the error-handling middleware of index.ts: whatever the error carries
ErrorStatus(err) == 500

errorHandler(err) ==
  [Response(ErrorStatus(err), "Something went wrong!") EXCEPT !.by = "errorHandler"]

InternalError == Response(500, "Internal server error. Please try again later.")

(***************************************************************************)
(* Book controllers.  Each returns the books file and the response.        *)
(***************************************************************************)
Min(a, b) == IF a < b THEN a ELSE b
Max(a, b) == IF a > b THEN a ELSE b

\* Array.prototype.slice(start, end): NaN counts as 0, a negative index is
\* taken from the end, and both ends are clamped to the array
slice(list, start, end) ==
  LET len == Len(list)
      int(v) == IF v.t = "number" THEN v.n ELSE 0
      rel(k) == IF k < 0 THEN Max(len + k, 0) ELSE Min(k, len)
  IN SubSeq(list, rel(int(start)) + 1, rel(int(end)))

\* page < 1 || limit < 1
BadPagination(pageNumber, limitNumber) ==
  JsLess(pageNumber, Num(1)) \/ JsLess(limitNumber, Num(1))

\* StartIndex without the "- 1": page 1 starts one page too late
StartIndexNextPage(pageNumber, limitNumber) == JsMul(pageNumber, limitNumber)

\* TotalPages rounding down instead of up
TotalPagesFloor(totalBooks, limitNumber) ==
  IF limitNumber.t = "number" /\ limitNumber.n > 0
  THEN Num(totalBooks \div limitNumber.n)
  ELSE NaN

StartIndex(pageNumber, limitNumber) == JsMul(JsSub(pageNumber, Num(1)), limitNumber)
EndIndex(startIndex, limitNumber) == JsAdd(startIndex, limitNumber)
TotalPages(totalBooks, limitNumber) == JsCeilDiv(Num(totalBooks), limitNumber)

\* "Apply pagination" and the pagination object of the response
Paginate(filteredBooks, pageNumber, limitNumber, message) ==
  LET startIndex == StartIndex(pageNumber, limitNumber)
      endIndex == EndIndex(startIndex, limitNumber)
      totalBooks == Len(filteredBooks)
      totalPages == TotalPages(totalBooks, limitNumber)
  IN [Response(200, message) EXCEPT
        !.books = slice(filteredBooks, startIndex, endIndex),
        !.pagination =
           [currentPage |-> ToJSON(pageNumber),
            totalPages |-> ToJSON(totalPages),
            totalBooks |-> totalBooks,
            hasNextPage |-> JsLess(pageNumber, totalPages),
            hasPreviousPage |-> JsLess(Num(1), pageNumber)]]

\* const { page = "1", limit = "10" } = req.query
DefaultPage == Str(<<"1">>)
DefaultLimit == Str(<<"1", "0">>)
OrDefault(v, default) == IF v.t = "undefined" THEN default ELSE v

\* AuthorMatches asking for the whole author instead of a part of it
AuthorMatchesWhole(book, author) == toLowerCase(book.author) = toLowerCase(author)

GenreMatches(book, genre) == toLowerCase(book.genre) = toLowerCase(genre)
AuthorMatches(book, author) == includes(toLowerCase(book.author), toLowerCase(author))
TitleMatches(book, title) == includes(toLowerCase(book.title), toLowerCase(title))

\* FilterBooks keeping every book whose genre contains the one asked for
FilterBooksGenrePart(books, query) ==
  LET byGenre(b) == ~Truthy(query.genre)
                    \/ includes(toLowerCase(b.genre), toLowerCase(query.genre.s))
      byAuthor(b) == ~Truthy(query.author) \/ AuthorMatches(b, query.author.s)
      byTitle(b) == ~Truthy(query.title) \/ TitleMatches(b, query.title.s)
  IN SelectSeq(SelectSeq(SelectSeq(books, byGenre), byAuthor), byTitle)

\* "Apply filters"
FilterBooks(books, query) ==
  LET byGenre(b) == ~Truthy(query.genre) \/ GenreMatches(b, query.genre.s)
      byAuthor(b) == ~Truthy(query.author) \/ AuthorMatches(b, query.author.s)
      byTitle(b) == ~Truthy(query.title) \/ TitleMatches(b, query.title.s)
  IN SelectSeq(SelectSeq(SelectSeq(books, byGenre), byAuthor), byTitle)

getAllBooks(file, query) ==
  LET file1 == initializeFile(file)
      pageNumber == parseInt(OrDefault(query.page, DefaultPage).s)
      limitNumber == parseInt(OrDefault(query.limit, DefaultLimit).s)
  IN IF BadPagination(pageNumber, limitNumber)
     THEN [file |-> file1,
           res |-> Response(400, "Page and limit must be positive numbers")]
     ELSE [file |-> file1,
           res |-> Paginate(FilterBooks(readJSONFile(file1), query),
                            pageNumber, limitNumber,
                            "Books retrieved successfully")]

searchBooksByGenre(file, genre, query) ==
  LET file1 == initializeFile(file)
      pageNumber == parseInt(OrDefault(query.page, DefaultPage).s)
      limitNumber == parseInt(OrDefault(query.limit, DefaultLimit).s)
      inGenre(b) == GenreMatches(b, genre)
  IN IF BadPagination(pageNumber, limitNumber)
     THEN [file |-> file1,
           res |-> Response(400, "Page and limit must be positive numbers")]
     ELSE [file |-> file1,
           res |-> Paginate(SelectSeq(readJSONFile(file1), inGenre),
                            pageNumber, limitNumber,
                            "Books in genre retrieved successfully")]

\* findIndex answering the first element whenever the id is in the list
findIndexFirst(books, id) ==
  IF \E i \in 1..Len(books) : books[i].id = id THEN 1 ELSE 0

\* books.findIndex((b) => b.id === id); 0 stands for -1
findIndex(books, id) ==
  IF \E i \in 1..Len(books) : books[i].id = id
  THEN CHOOSE i \in 1..Len(books) :
         books[i].id = id /\ \A j \in 1..(i - 1) : books[j].id # id
  ELSE 0

getBookById(file, id) ==
  LET file1 == initializeFile(file)
      books == readJSONFile(file1)
      i == findIndex(books, id)
  IN IF i = 0
     THEN [file |-> file1, res |-> Response(404, "Book not found")]
     ELSE [file |-> file1,
           res |-> [Response(200, "Book retrieved successfully") EXCEPT
                      !.books = <<books[i]>>]]

\* Number(v) as the comparisons < and > apply it: white space is trimmed,
\* the empty text is 0, a signed run of digits is its value and any other
\* text is NaN (no fraction, exponent or radix prefix occurs in the inputs)
ToNumber(v) ==
  CASE v.t = "number" -> v
    [] v.t = "string" ->
         LET t == trim(v.s)
             u == IF t # <<>> /\ Head(t) \in {"-", "+"} THEN Tail(t) ELSE t
         IN IF t = <<>> THEN Num(0)
            ELSE IF u # <<>> /\ DigitPrefix(u) = u
            THEN Num(IF Head(t) = "-" THEN 0 - DecimalValue(u) ELSE DecimalValue(u))
            ELSE NaN
    [] v.t = "null" -> Num(0)
    [] OTHER -> NaN

\* new Date().getFullYear()
CurrentYear == 2026

\* publishedYear < 1000 || publishedYear > currentYear
YearOutOfRange(publishedYear) ==
  \/ JsLess(ToNumber(publishedYear), Num(1000))
  \/ JsLess(Num(CurrentYear), ToNumber(publishedYear))

\* BadLength without the lower limit
BadLengthNoMinimum(v, max) == Len(trim(v.s)) > max

\* v.trim().length < 1 || v.trim().length > max
BadLength(v, max) == Len(trim(v.s)) < 1 \/ Len(trim(v.s)) > max

\* NotOwner with the ownership check left out
NotOwnerUnchecked(book, userId) == FALSE

\* the ownership check: books[bookIndex].userId !== userId
NotOwner(book, userId) == book.userId # userId

addBook(file, body, user, newId) ==
  LET file1 == initializeFile(file)
      userId == user.userId
      reject(status, message) == [file |-> file1, res |-> Response(status, message)]
  IN IF \/ ~Truthy(body.title) \/ ~Truthy(body.author)
        \/ ~Truthy(body.genre) \/ ~Truthy(body.publishedYear)
     THEN reject(400, "Title, author, genre, and published year are required")
     ELSE IF userId = 0
     THEN reject(401, "User authentication required")
     ELSE IF YearOutOfRange(body.publishedYear)
     THEN reject(400, "Published year must be between 1000 and currentYear")
     ELSE IF ~IsString(body.title)
     THEN [file |-> file1, res |-> InternalError]
     ELSE IF BadLength(body.title, 200)
     THEN reject(400, "Title must be between 1 and 200 characters")
     ELSE IF ~IsString(body.author)
     THEN [file |-> file1, res |-> InternalError]
     ELSE IF BadLength(body.author, 100)
     THEN reject(400, "Author must be between 1 and 100 characters")
     ELSE IF ~IsString(body.genre)
     THEN [file |-> file1, res |-> InternalError]
     ELSE IF BadLength(body.genre, 50)
     THEN reject(400, "Genre must be between 1 and 50 characters")
     ELSE
       LET newBook == [id |-> newId,
                       title |-> trim(body.title.s),
                       author |-> trim(body.author.s),
                       genre |-> trim(body.genre.s),
                       publishedYear |-> parseIntValue(body.publishedYear),
                       userId |-> userId]
       IN [file |-> writeJSONFile(Append(readJSONFile(file1), newBook)),
           res |-> [Response(201, "Book added successfully") EXCEPT
                      !.books = <<Stringify(newBook)>>]]

updateBook(file, id, body, user) ==
  LET file1 == initializeFile(file)
      userId == user.userId
      books == readJSONFile(file1)
      bookIndex == findIndex(books, id)
      reject(status, message) == [file |-> file1, res |-> Response(status, message)]
  IN IF userId = 0
     THEN reject(401, "User authentication required")
     ELSE IF bookIndex = 0
     THEN reject(404, "Book not found")
     ELSE IF NotOwner(books[bookIndex], userId)
     THEN reject(403, "You can only update your own books")
     ELSE IF Truthy(body.publishedYear) /\ YearOutOfRange(body.publishedYear)
     THEN reject(400, "Published year must be between 1000 and currentYear")
     ELSE IF Truthy(body.title) /\ ~IsString(body.title)
     THEN [file |-> file1, res |-> InternalError]
     ELSE IF Truthy(body.title) /\ BadLength(body.title, 200)
     THEN reject(400, "Title must be between 1 and 200 characters")
     ELSE IF Truthy(body.author) /\ ~IsString(body.author)
     THEN [file |-> file1, res |-> InternalError]
     ELSE IF Truthy(body.author) /\ BadLength(body.author, 100)
     THEN reject(400, "Author must be between 1 and 100 characters")
     ELSE IF Truthy(body.genre) /\ ~IsString(body.genre)
     THEN [file |-> file1, res |-> InternalError]
     ELSE IF Truthy(body.genre) /\ BadLength(body.genre, 50)
     THEN reject(400, "Genre must be between 1 and 50 characters")
     ELSE
       LET old == books[bookIndex]
           updatedBook ==
             [id |-> old.id,
              title |-> IF Truthy(body.title) THEN trim(body.title.s) ELSE old.title,
              author |-> IF Truthy(body.author) THEN trim(body.author.s) ELSE old.author,
              genre |-> IF Truthy(body.genre) THEN trim(body.genre.s) ELSE old.genre,
              publishedYear |-> IF Truthy(body.publishedYear)
                                THEN parseIntValue(body.publishedYear)
                                ELSE old.publishedYear,
              userId |-> old.userId]
       IN [file |-> writeJSONFile([books EXCEPT ![bookIndex] = updatedBook]),
           res |-> [Response(200, "Book updated successfully") EXCEPT
                      !.books = <<Stringify(updatedBook)>>]]

\* splice without its second argument: everything from index on goes
spliceToEnd(list, index) == SubSeq(list, 1, index - 1)

\* books.splice(index, 1)
splice(list, index) ==
  SubSeq(list, 1, index - 1) \o SubSeq(list, index + 1, Len(list))

deleteBook(file, id, user) ==
  LET file1 == initializeFile(file)
      userId == user.userId
      books == readJSONFile(file1)
      bookIndex == findIndex(books, id)
      reject(status, message) == [file |-> file1, res |-> Response(status, message)]
  IN IF userId = 0
     THEN reject(401, "User authentication required")
     ELSE IF bookIndex = 0
     THEN reject(404, "Book not found")
     ELSE IF NotOwner(books[bookIndex], userId)
     THEN reject(403, "You can only delete your own books")
     ELSE [file |-> writeJSONFile(splice(books, bookIndex)),
           res |-> Response(200, "Book deleted successfully")]

(***************************************************************************)
(* User controllers.                                                       *)
(***************************************************************************)
\* /^[^\s@]+@[^\s@]+\.[^\s@]+$/
isValidEmail(email) ==
  \E i \in 2..Len(email) : \E j \in (i + 2)..(Len(email) - 1) :
     /\ email[i] = "@"
     /\ email[j] = "."
     /\ \A k \in 1..Len(email) :
          k # i => email[k] \notin (Whitespace \cup {"@"})

PasswordSymbols == {"@", "$", "!", "%", "*", "#", "?", "&"}

\* isValidPassword without the lookahead (?=.*\d)
isValidPasswordNoDigit(password) ==
  /\ \E i \in 1..Len(password) : password[i] \in Letters
  /\ \A i \in 1..Len(password) :
       password[i] \in (Letters \cup Digits \cup PasswordSymbols)
  /\ Len(password) >= 6

\* /^(?=.*[A-Za-z])(?=.*\d)[A-Za-z\d@$!%*#?&]{6,}$/
isValidPassword(password) ==
  /\ \E i \in 1..Len(password) : password[i] \in Letters
  /\ \E i \in 1..Len(password) : password[i] \in Digits
  /\ \A i \in 1..Len(password) :
       password[i] \in (Letters \cup Digits \cup PasswordSymbols)
  /\ Len(password) >= 6

\* bcrypt.hash(password, 12) and bcrypt.compare(password, hash)
\* bcryptjs keys the cipher with the first 72 bytes of the password
BcryptMaxBytes == 72
bcryptKey(password) == SubSeq(password, 1, Min(Len(password), BcryptMaxBytes))
bcryptHash(password) == [alg |-> "bcrypt", rounds |-> 12, of |-> bcryptKey(password)]
bcryptCompare(password, hash) == hash.of = bcryptKey(password)

\* SameEmail comparing the texts as they are, without toLowerCase
SameEmailExact(user, email) == user.email = email

SameEmail(user, email) == toLowerCase(user.email) = toLowerCase(email)
SameUsername(user, username) == toLowerCase(user.username) = toLowerCase(username)

\* the user as stored, password included
WithPassword(user) == user

\* const { password: _, ...userWithoutPassword } = user
WithoutPassword(user) ==
  [id |-> user.id, username |-> user.username, email |-> user.email]

registerUser(file, body, newId) ==
  LET file1 == initializeFile(file)
      users == readJSONFile(file1)
      reject(status, message) == [file |-> file1, res |-> Response(status, message)]
  IN IF ~Truthy(body.username) \/ ~Truthy(body.email) \/ ~Truthy(body.password)
     THEN reject(400, "Username, email, and password are required")
     ELSE IF ~(IsString(body.email) /\ isValidEmail(body.email.s))
     THEN reject(400, "Please provide a valid email address")
     ELSE IF ~(IsString(body.password) /\ isValidPassword(body.password.s))
     THEN reject(400, "Password must be at least 6 characters long and contain at least one letter and one number")
     ELSE IF IsString(body.username)
             /\ (Len(body.username.s) < 3 \/ Len(body.username.s) > 20)
     THEN reject(400, "Username must be between 3 and 20 characters")
     ELSE IF ~IsString(body.username)
     THEN IF users # <<>> /\ SameEmail(users[1], body.email.s)
          THEN reject(409, "User with this email or username already exists")
          ELSE [file |-> file1, res |-> InternalError]
     ELSE IF \E i \in 1..Len(users) :
               SameEmail(users[i], body.email.s)
               \/ SameUsername(users[i], body.username.s)
     THEN reject(409, "User with this email or username already exists")
     ELSE
       LET newUser == [id |-> newId,
                       username |-> trim(body.username.s),
                       email |-> trim(toLowerCase(body.email.s)),
                       password |-> bcryptHash(body.password.s)]
       IN [file |-> writeJSONFile(Append(users, newUser)),
           res |-> [Response(201, "User registered successfully") EXCEPT
                      !.users = <<WithoutPassword(newUser)>>]]

\* users.find((u) => u.email.toLowerCase() === email.toLowerCase()); 0: none
findUserByEmail(users, email) ==
  IF \E i \in 1..Len(users) : SameEmail(users[i], email)
  THEN CHOOSE i \in 1..Len(users) :
         SameEmail(users[i], email)
         /\ \A j \in 1..(i - 1) : ~SameEmail(users[j], email)
  ELSE 0

loginUser(file, body) ==
  LET file1 == initializeFile(file)
      users == readJSONFile(file1)
      reject(status, message) == [file |-> file1, res |-> Response(status, message)]
  IN IF ~Truthy(body.email) \/ ~Truthy(body.password)
     THEN reject(400, "Email and password are required")
     ELSE IF ~IsString(body.email) /\ users # <<>>
     THEN [file |-> file1, res |-> InternalError]
     ELSE IF ~IsString(body.email) \/ findUserByEmail(users, body.email.s) = 0
     THEN reject(401, "Invalid email or password")
     ELSE
       LET user == users[findUserByEmail(users, body.email.s)]
       IN IF ~IsString(body.password)
          THEN [file |-> file1, res |-> InternalError]
          ELSE IF ~bcryptCompare(body.password.s, user.password)
          THEN reject(401, "Invalid email or password")
          ELSE
            LET token == jwtSign(user.id, user.email, JWT_SECRET)
            IN [file |-> file1,
                res |-> [Response(200, "Login successful") EXCEPT
                           !.users = <<WithoutPassword(user)>>,
                           !.token = token,
                           !.cookie = token]]

\* updateUser: exported by the controller; its route is commented out
updateUser(file, id, body) ==
  LET file1 == initializeFile(file)
      users == readJSONFile(file1)
      userIndex == findIndex(users, id)
      username == body.username
      email == body.email
      reject(status, message) == [file |-> file1, res |-> Response(status, message)]
  IN IF userIndex = 0
     THEN reject(404, "User not found")
     ELSE IF Truthy(email) /\ ~(IsString(email) /\ isValidEmail(email.s))
     THEN reject(400, "Please provide a valid email address")
     ELSE IF Truthy(username) /\ ~IsString(username)
     THEN [file |-> file1, res |-> InternalError]
     ELSE IF \E i \in 1..Len(users) :
               /\ i # userIndex
               /\ \/ Truthy(username) /\ SameUsername(users[i], username.s)
                  \/ Truthy(email) /\ SameEmail(users[i], email.s)
     THEN reject(409, "Username or email already exists")
     ELSE
       LET old == users[userIndex]
           updatedUser ==
             [id |-> old.id,
              username |-> IF Truthy(username) THEN trim(username.s) ELSE old.username,
              email |-> IF Truthy(email) THEN trim(toLowerCase(email.s)) ELSE old.email,
              password |-> old.password]
       IN [file |-> writeJSONFile([users EXCEPT ![userIndex] = updatedUser]),
           res |-> [Response(200, "User updated successfully") EXCEPT
                      !.users = <<WithoutPassword(updatedUser)>>]]

\* getAllUsers: exported by the controller; its route is commented out
getAllUsers(file) ==
  LET file1 == initializeFile(file)
      users == readJSONFile(file1)
      usersWithoutPasswords == [i \in 1..Len(users) |-> WithoutPassword(users[i])]
  IN [file |-> file1,
      res |-> [Response(200, "Users retrieved successfully") EXCEPT
                 !.users = usersWithoutPasswords]]

\* getUserById: exported by the controller; its route is commented out
getUserById(file, id) ==
  LET file1 == initializeFile(file)
      users == readJSONFile(file1)
      i == findIndex(users, id)
  IN IF i = 0
     THEN [file |-> file1, res |-> Response(404, "User not found")]
     ELSE [file |-> file1,
           res |-> [Response(200, "User retrieved successfully") EXCEPT
                      !.users = <<WithoutPassword(users[i])>>]]

(***************************************************************************)
(* Requests.  req is the request as the controller saw it (req.user is set *)
(* by isAuthenticated), res the response the client received.              *)
(***************************************************************************)
EmptyQuery ==
  [page |-> Undefined, limit |-> Undefined, genre |-> Undefined,
   author |-> Undefined, title |-> Undefined]

EmptyBody ==
  [username |-> Undefined, email |-> Undefined, password |-> Undefined,
   title |-> Undefined, author |-> Undefined, genre |-> Undefined,
   publishedYear |-> Undefined]

NoCredentials == [cookie |-> NoToken, authorization |-> NoToken]

\* no function is being applied on its own
NoCall == [fn |-> "none"]
NoReturn == [done |-> FALSE]

Request(op, cred, user) ==
  [op |-> op, cookie |-> cred.cookie, authorization |-> cred.authorization,
   user |-> user, id |-> 0, genre |-> <<>>, query |-> EmptyQuery,
   body |-> EmptyBody]

\* router.post("/register", registerUser)
PostRegister(body) ==
  LET out == registerUser(usersFile, body, userIds + 1)
  IN /\ out.res.status = 201 => userIds < MaxUsers
     /\ usersFile' = out.file
     /\ userIds' = IF out.res.status = 201 THEN userIds + 1 ELSE userIds
     /\ req' = [Request("registerUser", NoCredentials, NoUser) EXCEPT !.body = body]
     /\ res' = out.res
     /\ UNCHANGED <<booksFile, issued, bookIds, env, inflight, call, ret>>

\* router.post("/login", loginUser)
PostLogin(body) ==
  LET out == loginUser(usersFile, body)
  IN /\ usersFile' = out.file
     /\ issued' = IF out.res.status = 200 THEN issued \cup {out.res.token} ELSE issued
     /\ req' = [Request("loginUser", NoCredentials, NoUser) EXCEPT !.body = body]
     /\ res' = out.res
     /\ UNCHANGED <<booksFile, userIds, bookIds, env, inflight, call, ret>>

\* updateUser called with req.params.id and req.body
PutUser(id, body) ==
  LET out == updateUser(usersFile, id, body)
  IN /\ usersFile' = out.file
     /\ req' = [Request("updateUser", NoCredentials, NoUser) EXCEPT
                  !.id = id, !.body = body]
     /\ res' = out.res
     /\ UNCHANGED <<booksFile, issued, userIds, bookIds, env, inflight, call, ret>>

\* getAllUsers called on its own
GetUsers ==
  LET out == getAllUsers(usersFile)
  IN /\ usersFile' = out.file
     /\ req' = Request("getAllUsers", NoCredentials, NoUser)
     /\ res' = out.res
     /\ UNCHANGED <<booksFile, issued, userIds, bookIds, env, inflight, call, ret>>

\* getUserById called with req.params.id
GetUser(id) ==
  LET out == getUserById(usersFile, id)
  IN /\ usersFile' = out.file
     /\ req' = [Request("getUserById", NoCredentials, NoUser) EXCEPT !.id = id]
     /\ res' = out.res
     /\ UNCHANGED <<booksFile, issued, userIds, bookIds, env, inflight, call, ret>>

\* router.get("/books", getAllBooks)
GetBooks(cred, query) ==
  LET out == getAllBooks(booksFile, query)
  IN /\ booksFile' = out.file
     /\ req' = [Request("getAllBooks", cred, NoUser) EXCEPT !.query = query]
     /\ res' = out.res
     /\ UNCHANGED <<usersFile, issued, userIds, bookIds, env, inflight, call, ret>>

\* router.get("/books/search/:genre", searchBooksByGenre)
GetBooksSearch(cred, genre, query) ==
  LET out == searchBooksByGenre(booksFile, genre, query)
  IN /\ booksFile' = out.file
     /\ req' = [Request("searchBooksByGenre", cred, NoUser) EXCEPT
                  !.genre = genre, !.query = query]
     /\ res' = out.res
     /\ UNCHANGED <<usersFile, issued, userIds, bookIds, env, inflight, call, ret>>

\* router.get("/book/:id", getBookById)
GetBook(cred, id) ==
  LET out == getBookById(booksFile, id)
  IN /\ booksFile' = out.file
     /\ req' = [Request("getBookById", cred, NoUser) EXCEPT !.id = id]
     /\ res' = out.res
     /\ UNCHANGED <<usersFile, issued, userIds, bookIds, env, inflight, call, ret>>

\* router.post("/book", isAuthenticated, addBook)
PostBook(cred, body, cap) ==
  LET auth == isAuthenticated(cred.cookie, cred.authorization)
      out == IF auth.err
             THEN [file |-> booksFile, res |-> errorHandler(auth)]
             ELSE addBook(booksFile, body, auth.user, bookIds + 1)
  IN /\ out.res.status = 201 => bookIds < cap
     /\ booksFile' = out.file
     /\ bookIds' = IF out.res.status = 201 THEN bookIds + 1 ELSE bookIds
     /\ req' = [Request("addBook", cred, auth.user) EXCEPT !.body = body]
     /\ res' = out.res
     /\ UNCHANGED <<usersFile, issued, userIds, env, inflight, call, ret>>

\* router.put("/book/:id", isAuthenticated, updateBook)
PutBook(cred, id, body) ==
  LET auth == isAuthenticated(cred.cookie, cred.authorization)
      out == IF auth.err
             THEN [file |-> booksFile, res |-> errorHandler(auth)]
             ELSE updateBook(booksFile, id, body, auth.user)
  IN /\ booksFile' = out.file
     /\ req' = [Request("updateBook", cred, auth.user) EXCEPT
                  !.id = id, !.body = body]
     /\ res' = out.res
     /\ UNCHANGED <<usersFile, issued, userIds, bookIds, env, inflight, call, ret>>

\* router.delete("/book/:id", isAuthenticated, deleteBook)
DeleteBook(cred, id) ==
  LET auth == isAuthenticated(cred.cookie, cred.authorization)
      out == IF auth.err
             THEN [file |-> booksFile, res |-> errorHandler(auth)]
             ELSE deleteBook(booksFile, id, auth.user)
  IN /\ booksFile' = out.file
     /\ req' = [Request("deleteBook", cred, auth.user) EXCEPT !.id = id]
     /\ res' = out.res
     /\ UNCHANGED <<usersFile, issued, userIds, bookIds, env, inflight, call, ret>>

(***************************************************************************)
(* Requests served concurrently.  A controller suspends at each await: a   *)
(* request that is going to write first reads the document (with the       *)
(* checks made on what it read) and writes it in a later step, and other   *)
(* requests run in between.                                                *)
(***************************************************************************)
\* a request that has read the document and is about to write it
Pending(op, request, newId, data) ==
  [op |-> op, req |-> request, id |-> newId, data |-> data,
   phase |-> "read", status |-> 0]

\* the same request once its response is sent
Responded(p, status) == [p EXCEPT !.phase = "responded", !.status = status]

\* ReadResult reading the document again at the time of the write
ReadResultFresh(p, file) == file

\* userData / bookData: the value readJSONFile returned to this request
ReadResult(p, file) == [st |-> "ok", data |-> p.data]

\* Overwrite keeping the records that are in the file and not in the content
OverwriteKeeping(current, written) ==
  LET isNew(r) == \A i \in 1..Len(current.data) : current.data[i] # r
  IN [st |-> "ok", data |-> current.data \o SelectSeq(written.data, isNew)]

\* writeFile replaces the whole content of the file
Overwrite(current, written) == written

\* registerUser up to the duplicate check on the document it read
RegisterRead(body) ==
  LET out == registerUser(usersFile, body, userIds + 1)
      file1 == initializeFile(usersFile)
      request == [Request("registerUser", NoCredentials, NoUser) EXCEPT !.body = body]
  IN IF out.res.status # 201
     THEN /\ usersFile' = out.file
          /\ req' = request
          /\ res' = out.res
          /\ UNCHANGED <<booksFile, issued, userIds, bookIds, env, inflight, call, ret>>
     ELSE /\ userIds < MaxUsers
          /\ usersFile' = file1
          /\ userIds' = userIds + 1
          /\ inflight' = inflight \cup
               {Pending("registerUser", request, userIds + 1, readJSONFile(file1))}
          /\ UNCHANGED <<booksFile, issued, bookIds, env, req, res, call, ret>>

\* registerUser from bcrypt.hash to the response
RegisterWrite(p) ==
  LET out == registerUser(ReadResult(p, usersFile), p.req.body, p.id)
  IN /\ p.op = "registerUser"
     /\ p.phase = "read"
     /\ usersFile' = IF out.res.status = 201
                     THEN Overwrite(usersFile, out.file)
                     ELSE usersFile
     /\ req' = p.req
     /\ res' = out.res
     /\ inflight' = (inflight \ {p}) \cup {Responded(p, out.res.status)}
     /\ UNCHANGED <<booksFile, issued, userIds, bookIds, env, call, ret>>

\* isAuthenticated, then addBook up to the read of the document
AddBookRead(cred, body) ==
  LET auth == isAuthenticated(cred.cookie, cred.authorization)
      out == IF auth.err
             THEN [file |-> booksFile, res |-> errorHandler(auth)]
             ELSE addBook(booksFile, body, auth.user, bookIds + 1)
      file1 == initializeFile(booksFile)
      request == [Request("addBook", cred, auth.user) EXCEPT !.body = body]
  IN IF out.res.status # 201
     THEN /\ booksFile' = out.file
          /\ req' = request
          /\ res' = out.res
          /\ UNCHANGED <<usersFile, issued, userIds, bookIds, env, inflight, call, ret>>
     ELSE /\ bookIds < MaxBookIds
          /\ booksFile' = file1
          /\ bookIds' = bookIds + 1
          /\ inflight' = inflight \cup
               {Pending("addBook", request, bookIds + 1, readJSONFile(file1))}
          /\ UNCHANGED <<usersFile, issued, userIds, env, req, res, call, ret>>

\* addBook from bookData.books.push to the response
AddBookWrite(p) ==
  LET out == addBook(ReadResult(p, booksFile), p.req.body, p.req.user, p.id)
  IN /\ p.op = "addBook"
     /\ p.phase = "read"
     /\ booksFile' = IF out.res.status = 201
                     THEN Overwrite(booksFile, out.file)
                     ELSE booksFile
     /\ req' = p.req
     /\ res' = out.res
     /\ inflight' = (inflight \ {p}) \cup {Responded(p, out.res.status)}
     /\ UNCHANGED <<usersFile, issued, userIds, bookIds, env, call, ret>>

\* getAllBooks up to the failed read of initializeBooksFile; when the read
\* succeeds nothing is awaited on a write and the request is served through
GetBooksInitRead(query) ==
  LET request == [Request("getAllBooks", NoCredentials, NoUser) EXCEPT !.query = query]
  IN IF ~readThrows(booksFile)
     THEN GetBooks(NoCredentials, query)
     ELSE /\ inflight' = inflight \cup {Pending("getAllBooks", request, 0, <<>>)}
          /\ UNCHANGED <<usersFile, booksFile, issued, userIds, bookIds, env,
                         req, res, call, ret>>

\* getAllBooks from the write of initializeBooksFile to the response
GetBooksInitWrite(p) ==
  LET file1 == Overwrite(booksFile, writeJSONFile(<<>>))
      out == getAllBooks(file1, p.req.query)
  IN /\ p.op = "getAllBooks"
     /\ p.phase = "read"
     /\ booksFile' = out.file
     /\ req' = p.req
     /\ res' = out.res
     /\ inflight' = (inflight \ {p}) \cup {Responded(p, out.res.status)}
     /\ UNCHANGED <<usersFile, issued, userIds, bookIds, env, call, ret>>

(***************************************************************************)
(* The requests of the specification Spec.                                 *)
(***************************************************************************)
Bob == <<"b", "o", "b">>
Amy == <<"a", "m", "y">>
EmailA == <<"a", "@", "b", ".", "c">>
EmailAUpper == <<"A", "@", "B", ".", "c">>
EmailX == <<"x", "@", "b", ".", "c">>
GoodPassword == <<"a", "b", "c", "1", "2", "3">>
OtherPassword == <<"a", "b", "c", "1", "2", "4">>
NoDigitPassword == <<"a", "b", "c", "d", "e", "f">>

RegisterBody(username, email, password) ==
  [EmptyBody EXCEPT !.username = username, !.email = email, !.password = password]

\* usernames with white space at an end: 4 and 3 characters as submitted
SpaceBob == <<" ", "B", "o", "b">>
AmSpace == <<"a", "m", " ">>

RegisterBodies ==
  {RegisterBody(u, e, pw) :
     u \in {Str(Bob), Str(Amy), Str(<<"a", "m">>)},
     e \in {Str(EmailA), Str(EmailAUpper), Str(EmailX), Str(<<"a", "b">>)},
     pw \in {Str(GoodPassword), Str(NoDigitPassword)}}
  \cup {RegisterBody(Str(Bob), Undefined, Str(GoodPassword))}

LoginBody(email, password) ==
  [EmptyBody EXCEPT !.email = email, !.password = password]

LoginBodies ==
  {LoginBody(e, pw) :
     e \in {Str(EmailAUpper), Str(EmailX)},
     pw \in {Str(GoodPassword), Str(OtherPassword)}}

\* the two users of Spec
OwnerRegisterBodies ==
  {RegisterBody(Str(Bob), Str(EmailA), Str(GoodPassword)),
   RegisterBody(Str(Amy), Str(EmailX), Str(GoodPassword))}

OwnerLoginBodies ==
  {LoginBody(Str(EmailAUpper), Str(GoodPassword)),
   LoginBody(Str(EmailX), Str(GoodPassword))}

\* what a client can present: nothing, a token a login returned (as the
\* cookie or as the Authorization header), such a token after its 24 hours,
\* or a token it signed itself
Credentials ==
  {NoCredentials}
  \cup {[cookie |-> t, authorization |-> NoToken] : t \in issued}
  \cup {[cookie |-> NoToken, authorization |-> t] : t \in issued}
  \cup {[cookie |-> [jwtSign(1, EmailA, JWT_SECRET) EXCEPT !.expired = TRUE],
          authorization |-> NoToken]}
  \cup {[cookie |-> jwtSign(1, EmailA, ForgedKey), authorization |-> NoToken]}

BookIdParams == 1..MaxBookIds

AddBodies ==
  {[EmptyBody EXCEPT !.title = Str(<<"A", "b">>), !.author = Str(<<"C", "d">>),
                     !.genre = Str(<<"F">>), !.publishedYear = Num(2000)]}

UpdateBodies ==
  {[EmptyBody EXCEPT !.title = Str(<<"b">>)]}

Init ==
  /\ usersFile = AbsentFile
  /\ booksFile = AbsentFile
  /\ issued = {}
  /\ userIds = 0
  /\ bookIds = 0
  /\ env = [JWT_SECRET |-> "secret"]
  /\ req = Request("none", NoCredentials, NoUser)
  /\ res = Response(0, "")
  /\ inflight = {}
  /\ call = NoCall
  /\ ret = NoReturn

Next ==
  \/ \E body \in OwnerRegisterBodies : PostRegister(body)
  \/ \E body \in OwnerLoginBodies : PostLogin(body)
  \/ GetBooks(NoCredentials, EmptyQuery)
  \/ GetBooksSearch(NoCredentials, <<"f">>, EmptyQuery)
  \/ \E id \in BookIdParams : GetBook(NoCredentials, id)
  \/ \E cred \in Credentials, body \in AddBodies :
       PostBook(cred, body, MaxBookIds)
  \/ \E cred \in Credentials, id \in BookIdParams, body \in UpdateBodies :
       PutBook(cred, id, body)
  \/ \E cred \in Credentials, id \in BookIdParams : DeleteBook(cred, id)

Spec == Init /\ [][Next]_vars

(***************************************************************************)
(* The requests of the specification SpecQuery: one user fills the store   *)
(* and anyone lists and searches it with every paging and filter value.    *)
(***************************************************************************)
BookBody(title, author, genre) ==
  [EmptyBody EXCEPT !.title = Str(title), !.author = Str(author),
                    !.genre = Str(genre), !.publishedYear = Num(2000)]

QueryAddBodies ==
  {BookBody(<<"A", "b">>, <<"C", "d">>, <<"F">>),
   BookBody(<<"b">>, <<"d">>, <<"f">>),
   BookBody(<<"a">>, <<"d", "C">>, <<"F", "d">>)}

PageParams ==
  {Undefined, Str(<<"1">>), Str(<<"2">>), Str(<<"3">>), Str(<<"0">>),
   Str(<<"a", "b", "c">>), Str(<<"1", ".", "5">>)}

LimitParams ==
  {Undefined, Str(<<"1">>), Str(<<"2">>), Str(<<"0">>), Str(<<"a", "b", "c">>)}

PagingQueries ==
  {[EmptyQuery EXCEPT !.page = pg, !.limit = lm] :
     pg \in PageParams, lm \in LimitParams}

\* the paging given to searchBooksByGenre
SearchQueries ==
  {[EmptyQuery EXCEPT !.page = pg, !.limit = lm] :
     pg \in {Undefined, Str(<<"1">>), Str(<<"2">>), Str(<<"0">>)},
     lm \in {Undefined, Str(<<"1">>), Str(<<"0">>)}}

FilterQueries ==
  {[EmptyQuery EXCEPT !.genre = g, !.author = a, !.title = t] :
     g \in {Undefined, Str(<<>>), Str(<<"f">>)},
     a \in {Undefined, Str(<<>>), Str(<<"D">>), Str(<<"c", "d">>)},
     t \in {Undefined, Str(<<"B">>)}}

NextQuery ==
  \/ PostRegister(RegisterBody(Str(Bob), Str(EmailA), Str(GoodPassword)))
  \/ PostLogin(LoginBody(Str(EmailAUpper), Str(GoodPassword)))
  \/ \E t \in issued, body \in QueryAddBodies :
       PostBook([cookie |-> t, authorization |-> NoToken], body, MaxQueryBooks)
  \/ \E query \in PagingQueries \cup FilterQueries :
       GetBooks(NoCredentials, query)
  \/ \E query \in SearchQueries :
       GetBooksSearch(NoCredentials, <<"f">>, query)

SpecQuery == Init /\ [][NextQuery]_vars

(***************************************************************************)
(* The requests of the specification SpecUsers: registration and login     *)
(* with every combination of valid and invalid fields.                     *)
(***************************************************************************)
NextUsers ==
  \/ \E body \in RegisterBodies : PostRegister(body)
  \/ \E body \in LoginBodies : PostLogin(body)

SpecUsers == Init /\ [][NextUsers]_vars

(***************************************************************************)
(* The requests of the specification SpecUsernames: registerUser and       *)
(* updateUser with usernames that differ by case and by white space.       *)
(***************************************************************************)
UsernameBodies ==
  {RegisterBody(u, e, Str(GoodPassword)) :
     u \in {Str(Bob), Str(<<"a", "m">>), Str(SpaceBob), Str(AmSpace)},
     e \in {Str(EmailA), Str(EmailX)}}

UserIdParams == 1..MaxUsers

UpdateUserBodies ==
  {[EmptyBody EXCEPT !.username = Str(<<"a">>)],
   [EmptyBody EXCEPT !.username = Str(SpaceBob)],
   [EmptyBody EXCEPT !.email = Str(EmailAUpper)],
   [EmptyBody EXCEPT !.email = Str(<<"a", "b">>)]}

NextUsernames ==
  \/ \E body \in UsernameBodies : PostRegister(body)
  \/ \E id \in UserIdParams, body \in UpdateUserBodies : PutUser(id, body)

SpecUsernames == Init /\ [][NextUsernames]_vars

(***************************************************************************)
(* The specification SpecPassword: isValidPassword applied to every text   *)
(* of up to MaxPasswordLen characters over a letter, a digit, a symbol of  *)
(* the class and a character outside it, and to some longer samples.       *)
(***************************************************************************)
PasswordChars == {"a", "1", "#", "-"}

PasswordSamples ==
  {GoodPassword, NoDigitPassword,
   <<"1", "2", "3", "4", "5", "6">>,
   <<"A", "b", "c", "1", "2", "$">>,
   <<"a", "b", "c", " ", "1", "2", "3">>,
   <<"a", "b", "c", "1", "2", "3", "_">>,
   <<"Z", "9", "@", "$", "!", "%", "*", "#", "?", "&">>}

Passwords ==
  PasswordSamples
  \cup UNION {[1..n -> PasswordChars] : n \in 0..MaxPasswordLen}

InitPassword ==
  /\ usersFile = AbsentFile
  /\ booksFile = AbsentFile
  /\ issued = {}
  /\ userIds = 0
  /\ bookIds = 0
  /\ env = [JWT_SECRET |-> "secret"]
  /\ req = Request("none", NoCredentials, NoUser)
  /\ res = Response(0, "")
  /\ inflight = {}
  /\ call \in {[fn |-> "isValidPassword", arg |-> p] : p \in Passwords}
  /\ ret = NoReturn

\* passwordRegex.test(password)
ApplyIsValidPassword ==
  /\ call.fn = "isValidPassword"
  /\ ~ret.done
  /\ ret' = [done |-> TRUE, value |-> isValidPassword(call.arg)]
  /\ UNCHANGED <<usersFile, booksFile, issued, userIds, bookIds, env, req, res,
                 inflight, call>>

NextPassword == ApplyIsValidPassword

SpecPassword == InitPassword /\ [][NextPassword]_vars

(***************************************************************************)
(* The requests of the specification SpecRace: registrations that overlap, *)
(* and logins.                                                             *)
(***************************************************************************)
RaceRegisterBodies ==
  {RegisterBody(Str(Bob), Str(EmailA), Str(GoodPassword)),
   RegisterBody(Str(Amy), Str(EmailAUpper), Str(GoodPassword)),
   RegisterBody(Str(Amy), Str(EmailX), Str(GoodPassword))}

NextRace ==
  \/ \E body \in RaceRegisterBodies : RegisterRead(body)
  \/ \E p \in inflight : RegisterWrite(p)
  \/ \E body \in OwnerLoginBodies : PostLogin(body)

SpecRace == Init /\ [][NextRace]_vars

\* SpecRaceBooks: one user, whose addBook requests overlap
NextRaceBooks ==
  \/ PostRegister(RegisterBody(Str(Bob), Str(EmailA), Str(GoodPassword)))
  \/ PostLogin(LoginBody(Str(EmailAUpper), Str(GoodPassword)))
  \/ \E t \in issued, body \in QueryAddBodies :
       AddBookRead([cookie |-> t, authorization |-> NoToken], body)
  \/ \E p \in inflight : AddBookWrite(p)
  \/ GetBooks(NoCredentials, EmptyQuery)

SpecRaceBooks == Init /\ [][NextRaceBooks]_vars

(***************************************************************************)
(* The requests of the specification SpecFields: one user adds and updates *)
(* books whose title, author and genre are at, inside and outside the      *)
(* length limits, padded with white space, or not a string.                *)
(***************************************************************************)
Repeat(c, n) == [i \in 1..n |-> c]
Padded(s) == <<" ">> \o s \o <<" ">>

FieldValues(max) ==
  {Str(<<" ", " ">>), Str(Padded(<<"b">>)), Str(Padded(Repeat("x", max))),
   Str(Repeat("x", max + 1)), Num(5)}

ValidBook == BookBody(<<"A", "b">>, <<"C", "d">>, <<"F">>)

FieldAddBodies ==
  {ValidBook}
  \cup {[ValidBook EXCEPT !.title = v] : v \in FieldValues(200)}
  \cup {[ValidBook EXCEPT !.author = v] : v \in FieldValues(100)}
  \cup {[ValidBook EXCEPT !.genre = v] : v \in FieldValues(50)}

FieldUpdateBodies ==
  {[EmptyBody EXCEPT !.title = v] : v \in FieldValues(200)}
  \cup {[EmptyBody EXCEPT !.author = v] : v \in FieldValues(100)}
  \cup {[EmptyBody EXCEPT !.genre = v] : v \in FieldValues(50)}

NextFields ==
  \/ PostRegister(RegisterBody(Str(Bob), Str(EmailA), Str(GoodPassword)))
  \/ PostLogin(LoginBody(Str(EmailAUpper), Str(GoodPassword)))
  \/ \E t \in issued, body \in FieldAddBodies :
       PostBook([cookie |-> t, authorization |-> NoToken], body, MaxStoreBooks)
  \/ \E t \in issued, id \in 1..MaxStoreBooks, body \in FieldUpdateBodies :
       PutBook([cookie |-> t, authorization |-> NoToken], id, body)

SpecFields == Init /\ [][NextFields]_vars

(***************************************************************************)
(* The requests of the specification SpecStore: a deployment whose users   *)
(* and books files are missing or hold text that does not parse, and       *)
(* requests with valid and invalid bodies and every kind of publishedYear. *)
(***************************************************************************)
InitStore ==
  /\ usersFile \in {AbsentFile, CorruptFile}
  /\ booksFile \in {AbsentFile, CorruptFile}
  /\ issued = {}
  /\ userIds = 0
  /\ bookIds = 0
  /\ env = [JWT_SECRET |-> "secret"]
  /\ req = Request("none", NoCredentials, NoUser)
  /\ res = Response(0, "")
  /\ inflight = {}
  /\ call = NoCall
  /\ ret = NoReturn

YearValues ==
  {Undefined, Num(2000), Num(999), Num(1000), Num(CurrentYear),
   Num(CurrentYear + 1), Str(<<"2", "0", "0", "0">>), Str(<<"9", "9", "9">>),
   Str(<<"a", "b", "c">>), Str(<<"2", "0", "x">>)}

StoreRegisterBodies ==
  {RegisterBody(Str(Bob), Str(EmailA), Str(GoodPassword)),
   RegisterBody(Str(Bob), Str(EmailA), Str(NoDigitPassword))}

StoreAddBodies == {[ValidBook EXCEPT !.publishedYear = y] : y \in YearValues}

StoreUpdateBodies ==
  {[EmptyBody EXCEPT !.publishedYear = y] : y \in YearValues \ {Undefined}}
  \cup {[EmptyBody EXCEPT !.title = Str(<<" ", " ">>)]}

NextStore ==
  \/ \E body \in StoreRegisterBodies : PostRegister(body)
  \/ PostLogin(LoginBody(Str(EmailAUpper), Str(GoodPassword)))
  \/ GetBooks(NoCredentials, EmptyQuery)
  \/ \E id \in 1..MaxStoreBooks : GetBook(NoCredentials, id)
  \/ \E t \in issued, body \in StoreAddBodies :
       PostBook([cookie |-> t, authorization |-> NoToken], body, MaxStoreBooks)
  \/ \E t \in issued, id \in 1..MaxStoreBooks, body \in StoreUpdateBodies :
       PutBook([cookie |-> t, authorization |-> NoToken], id, body)
  \/ \E t \in issued, id \in 1..MaxStoreBooks :
       DeleteBook([cookie |-> t, authorization |-> NoToken], id)

SpecStore == InitStore /\ [][NextStore]_vars

(***************************************************************************)
(* The specification SpecRoundTrip: writeJSONFile then readJSONFile of     *)
(* every users and books document of up to MaxDocLen records, the records  *)
(* being those registerUser and addBook build in memory.                   *)
(***************************************************************************)
UserRecords ==
  {[id |-> i, username |-> u, email |-> EmailA, password |-> bcryptHash(GoodPassword)] :
     i \in 1..2, u \in {Bob, Amy}}

BookRecords ==
  {[id |-> i, title |-> t, author |-> <<"C", "d">>, genre |-> <<"F">>,
    publishedYear |-> parseIntValue(y), userId |-> 1] :
     i \in 1..2, t \in {<<"A", "b">>, <<"b">>},
     y \in {Num(2000), Str(<<"1", "9", "9", "9">>), Str(<<"a", "b", "c">>)}}

Documents ==
  UNION {[1..n -> UserRecords] : n \in 0..MaxDocLen}
  \cup UNION {[1..n -> BookRecords] : n \in 1..MaxDocLen}

InitRoundTrip ==
  /\ usersFile = AbsentFile
  /\ booksFile = AbsentFile
  /\ issued = {}
  /\ userIds = 0
  /\ bookIds = 0
  /\ env = [JWT_SECRET |-> "secret"]
  /\ req = Request("none", NoCredentials, NoUser)
  /\ res = Response(0, "")
  /\ inflight = {}
  /\ call \in {[fn |-> "roundTrip", arg |-> doc] : doc \in Documents}
  /\ ret = NoReturn

\* await writeJSONFile(path, content), then await readJSONFile(path)
WriteThenRead ==
  /\ call.fn = "roundTrip"
  /\ ~ret.done
  /\ ret' = [done |-> TRUE, value |-> readJSONFile(writeJSONFile(call.arg))]
  /\ UNCHANGED <<usersFile, booksFile, issued, userIds, bookIds, env, req, res,
                 inflight, call>>

NextRoundTrip == WriteThenRead

SpecRoundTrip == InitRoundTrip /\ [][NextRoundTrip]_vars

(***************************************************************************)
(* The requests of the specification SpecInitRace: a listing whose         *)
(* initializeBooksFile overlaps the addBook requests of a user.            *)
(***************************************************************************)
NextInitRace ==
  \/ PostRegister(RegisterBody(Str(Bob), Str(EmailA), Str(GoodPassword)))
  \/ PostLogin(LoginBody(Str(EmailAUpper), Str(GoodPassword)))
  \/ \E t \in issued, body \in QueryAddBodies :
       PostBook([cookie |-> t, authorization |-> NoToken], body, MaxBookIds)
  \/ \E query \in {EmptyQuery, [EmptyQuery EXCEPT !.genre = Str(<<"f">>)]} :
       GetBooksInitRead(query)
  \/ \E p \in inflight : GetBooksInitWrite(p)

SpecInitRace == Init /\ [][NextInitRace]_vars

(***************************************************************************)
(* The requests of the specification SpecUpdate: one user adds books and   *)
(* updates them (and its own record) with bodies whose fields are absent,  *)
(* falsy or given.                                                         *)
(***************************************************************************)
PatchBodies ==
  {[EmptyBody EXCEPT !.title = t, !.publishedYear = y] :
     t \in {Undefined, Str(<<>>), Str(Padded(<<"b">>))},
     y \in {Undefined, Num(0), Num(1999)}}
  \cup {[EmptyBody EXCEPT !.author = Str(<<>>), !.genre = Str(<<>>)]}

PatchUserBodies ==
  {[EmptyBody EXCEPT !.username = Str(<<>>)],
   [EmptyBody EXCEPT !.email = Str(<<>>)],
   [EmptyBody EXCEPT !.username = Str(Amy), !.email = Str(<<>>)]}

NextUpdate ==
  \/ PostRegister(RegisterBody(Str(Bob), Str(EmailA), Str(GoodPassword)))
  \/ PostLogin(LoginBody(Str(EmailAUpper), Str(GoodPassword)))
  \/ \E t \in issued :
       PostBook([cookie |-> t, authorization |-> NoToken], ValidBook, MaxBookIds)
  \/ \E t \in issued, id \in BookIdParams, body \in PatchBodies :
       PutBook([cookie |-> t, authorization |-> NoToken], id, body)
  \/ \E body \in PatchUserBodies : PutUser(1, body)

SpecUpdate == Init /\ [][NextUpdate]_vars

(***************************************************************************)
(* The requests of the specification SpecSecret: deployments with and      *)
(* without the environment variable JWT_SECRET, where users log in and     *)
(* present the cookie they received.                                       *)
(***************************************************************************)
InitSecret ==
  /\ usersFile = AbsentFile
  /\ booksFile = AbsentFile
  /\ issued = {}
  /\ userIds = 0
  /\ bookIds = 0
  /\ env \in {[JWT_SECRET |-> "secret"], [JWT_SECRET |-> "unset"]}
  /\ req = Request("none", NoCredentials, NoUser)
  /\ res = Response(0, "")
  /\ inflight = {}
  /\ call = NoCall
  /\ ret = NoReturn

NextSecret ==
  \/ \E body \in OwnerRegisterBodies : PostRegister(body)
  \/ \E body \in OwnerLoginBodies : PostLogin(body)
  \/ \E t \in issued, body \in AddBodies :
       PostBook([cookie |-> t, authorization |-> NoToken], body, MaxStoreBooks)
  \/ \E t \in issued, id \in 1..MaxStoreBooks, body \in UpdateBodies :
       PutBook([cookie |-> t, authorization |-> NoToken], id, body)
  \/ \E t \in issued, id \in 1..MaxStoreBooks :
       DeleteBook([cookie |-> t, authorization |-> NoToken], id)

SpecSecret == InitSecret /\ [][NextSecret]_vars

(***************************************************************************)
(* The requests of the specification SpecOwner: two users add, update and  *)
(* delete books, with bodies that also carry an id and a userId.           *)
(***************************************************************************)
\* a request body that also carries an id and a userId
WithIds(body, id, userId) ==
  [f \in DOMAIN body \cup {"id", "userId"} |->
     IF f = "id" THEN id ELSE IF f = "userId" THEN userId ELSE body[f]]

OwnerAddBodies ==
  {WithIds(ValidBook, Undefined, Undefined),
   WithIds(ValidBook, Num(9), Num(1)),
   WithIds(ValidBook, Undefined, Num(2))}

OwnerUpdateBodies ==
  {WithIds([EmptyBody EXCEPT !.title = Str(<<"b">>)], Num(9), Num(2)),
   WithIds(EmptyBody, Undefined, Num(1))}

NextOwner ==
  \/ \E body \in OwnerRegisterBodies : PostRegister(body)
  \/ \E body \in OwnerLoginBodies : PostLogin(body)
  \/ \E t \in issued, body \in OwnerAddBodies :
       PostBook([cookie |-> t, authorization |-> NoToken], body, MaxBookIds)
  \/ \E t \in issued, id \in BookIdParams, body \in OwnerUpdateBodies :
       PutBook([cookie |-> t, authorization |-> NoToken], id, body)
  \/ \E t \in issued, id \in BookIdParams :
       DeleteBook([cookie |-> t, authorization |-> NoToken], id)

SpecOwner == Init /\ [][NextOwner]_vars

(***************************************************************************)
(* The requests of the specification SpecLogin: two registered users, one  *)
(* with a password longer than bcrypt's key, and logins with known and     *)
(* unknown emails and right and wrong passwords.                           *)
(***************************************************************************)
EmailUnknown == <<"z", "@", "b", ".", "c">>
LongPassword == Repeat("a", BcryptMaxBytes - 1) \o <<"1", "x">>
LongPasswordOther == Repeat("a", BcryptMaxBytes - 1) \o <<"1", "y">>

LoginRegisterBodies ==
  {RegisterBody(Str(Bob), Str(EmailA), Str(GoodPassword)),
   RegisterBody(Str(Amy), Str(EmailX), Str(LongPassword))}

LoginAttempts ==
  {LoginBody(Str(e), Str(pw)) :
     e \in {EmailA, EmailAUpper, EmailX, EmailUnknown},
     pw \in {GoodPassword, OtherPassword, LongPassword, LongPasswordOther}}

NextLogin ==
  \/ \E body \in LoginRegisterBodies : PostRegister(body)
  \/ \E body \in LoginAttempts : PostLogin(body)

SpecLogin == Init /\ [][NextLogin]_vars

(***************************************************************************)
(* The requests of the specification SpecAccounts: every operation of the  *)
(* user controller on the accounts of two users.                           *)
(***************************************************************************)
AccountLoginBodies ==
  OwnerLoginBodies \cup {LoginBody(Str(EmailA), Str(OtherPassword))}

AccountUpdateBodies ==
  {[EmptyBody EXCEPT !.username = Str(<<"a", "n", "n">>)],
   [EmptyBody EXCEPT !.email = Str(EmailAUpper), !.password = Str(OtherPassword)]}

NextAccounts ==
  \/ \E body \in OwnerRegisterBodies : PostRegister(body)
  \/ \E body \in AccountLoginBodies : PostLogin(body)
  \/ GetUsers
  \/ \E id \in UserIdParams : GetUser(id)
  \/ \E id \in UserIdParams, body \in AccountUpdateBodies : PutUser(id, body)

SpecAccounts == Init /\ [][NextAccounts]_vars

(***************************************************************************)
(* The requests of the specification SpecSearch: the same genre, page and  *)
(* limit given to searchBooksByGenre and to getAllBooks.                   *)
(***************************************************************************)
SearchGenres == {<<"f">>, <<"F", "d">>}

NextSearch ==
  \/ PostRegister(RegisterBody(Str(Bob), Str(EmailA), Str(GoodPassword)))
  \/ PostLogin(LoginBody(Str(EmailAUpper), Str(GoodPassword)))
  \/ \E t \in issued, body \in QueryAddBodies :
       PostBook([cookie |-> t, authorization |-> NoToken], body, MaxBookIds)
  \/ \E g \in SearchGenres, query \in SearchQueries :
       GetBooks(NoCredentials, [query EXCEPT !.genre = Str(g)])
  \/ \E g \in SearchGenres, query \in SearchQueries :
       GetBooksSearch(NoCredentials, g, query)

SpecSearch == Init /\ [][NextSearch]_vars

(***************************************************************************)
(* Properties.                                                             *)
(***************************************************************************)
Books == booksFile.data
Users == usersFile.data

ProtectedOps == {"addBook", "updateBook", "deleteBook"}
BookOps == ProtectedOps \cup {"getAllBooks", "searchBooksByGenre", "getBookById"}

\* the request r carries a token that a login returned and that has not
\* expired, in the cookie or in the Authorization header
CarriesValidToken(r, tokens) == r.cookie \in tokens \/ r.authorization \in tokens

\* C1: updateBook or deleteBook by an authenticated caller on an existing
\* book of another user answers 403 and leaves the books document as it was;
\* and a step changes or removes a stored book only when it is an updateBook
\* or deleteBook of that book carrying a valid token of the book's owner.
C1_OnlyOwnerModifies ==
  [][/\ \A i \in 1..Len(Books) :
          (/\ req'.op \in {"updateBook", "deleteBook"}
           /\ req'.user # NoUser
           /\ req'.id = Books[i].id
           /\ req'.user.userId # Books[i].userId)
          => (res'.status = 403 /\ booksFile' = booksFile)
     /\ \A i \in 1..Len(Books) :
          (\A j \in 1..Len(booksFile'.data) : booksFile'.data[j] # Books[i])
          => (/\ req'.op \in {"updateBook", "deleteBook"}
              /\ req'.id = Books[i].id
              /\ req'.cookie \in issued
              /\ req'.cookie.userId = Books[i].userId)]_vars

\* C1's case: an authenticated caller was refused on another user's book
C1_Witness ==
  /\ req.op \in {"updateBook", "deleteBook"}
  /\ res.status = 403
  /\ res.by = "controller"
  /\ \E i \in 1..Len(Books) :
       Books[i].id = req.id /\ Books[i].userId # req.user.userId

\* C2: a request to a protected endpoint whose only credential is a valid,
\* unexpired token in the Authorization header is authenticated as that
\* token's user and reaches the controller.
C2_BearerHeaderAuthenticates ==
  (/\ req.op \in ProtectedOps
   /\ req.cookie = NoToken
   /\ req.authorization \in issued)
  => (req.user.userId = req.authorization.userId /\ res.by = "controller")

\* C3: on a protected endpoint the client receives 401 when it presented no
\* token and 403 when it presented an invalid or expired one.
C3_MissingAndInvalidDiffer ==
  req.op \in ProtectedOps
  => /\ (req.cookie = NoToken /\ req.authorization = NoToken) => res.status = 401
     /\ (req.cookie # NoToken /\ req.cookie \notin issued) => res.status = 403

\* C4: a request to any book endpoint without a valid token is rejected and
\* returns no book data.
C4_BookEndpointsNeedToken ==
  (req.op \in BookOps /\ ~CarriesValidToken(req, issued))
  => (res.status >= 400 /\ res.books = <<>>)

\* C5: a request that carries no valid token never changes the content of
\* the books document.
C5_NoTokenNoBookWrite ==
  [][~CarriesValidToken(req', issued') => booksFile' = booksFile]_vars

\* the request r registers an email that a stored user has, ignoring case
RegistersStoredEmail(r, users) ==
  /\ r.op = "registerUser"
  /\ IsString(r.body.email)
  /\ \E i \in 1..Len(users) :
       toLowerCase(users[i].email) = toLowerCase(r.body.email.s)

\* C10 as stated: a registration whose email equals a stored email ignoring
\* case is answered 409 and leaves the users document unchanged.
C10_DuplicateEmailAlways409 ==
  [][RegistersStoredEmail(req', Users)
     => (res'.status = 409 /\ usersFile' = usersFile)]_vars

\* C10 amended: such a registration leaves the users document unchanged and
\* is answered 409 when its username has 3 to 20 characters and its password
\* passes isValidPassword, and 400 otherwise.
C10_DuplicateEmailRejected ==
  [][RegistersStoredEmail(req', Users)
     => /\ usersFile' = usersFile
        /\ res'.status =
             IF /\ IsString(req'.body.username)
                /\ Len(req'.body.username.s) \in 3..20
                /\ IsString(req'.body.password)
                /\ isValidPassword(req'.body.password.s)
             THEN 409 ELSE 400]_vars

\* C10's case: a case variant of a stored email, under a fresh username, got 409
C10_Witness ==
  /\ req.op = "registerUser"
  /\ res.status = 409
  /\ \E i \in 1..Len(Users) :
       /\ Users[i].email # req.body.email.s
       /\ toLowerCase(Users[i].email) = toLowerCase(req.body.email.s)
  /\ \A i \in 1..Len(Users) :
       toLowerCase(Users[i].username) # toLowerCase(req.body.username.s)

(***************************************************************************)
(* Listing and search (SpecQuery).                                         *)
(***************************************************************************)
ListOps == {"getAllBooks", "searchBooksByGenre"}

\* a query parameter that is the decimal numeral of a positive integer
PositiveNumeral(v) ==
  /\ IsString(v)
  /\ v.s # <<>>
  /\ \A i \in 1..Len(v.s) : v.s[i] \in Digits
  /\ v.s[1] # "0"

\* the page and page size a request asks for; absent ones are 1 and 10
PageOf(r) == IF r.query.page = Undefined THEN 1 ELSE DecimalValue(r.query.page.s)
LimitOf(r) == IF r.query.limit = Undefined THEN 10 ELSE DecimalValue(r.query.limit.s)

ValidPaging(r) ==
  /\ r.query.page = Undefined \/ PositiveNumeral(r.query.page)
  /\ r.query.limit = Undefined \/ PositiveNumeral(r.query.limit)

EqualIgnoringCase(a, b) ==
  Len(a) = Len(b) /\ \A i \in 1..Len(a) : ToLowerChar(a[i]) = ToLowerChar(b[i])

ContainsIgnoringCase(a, part) ==
  \E k \in 0..(Len(a) - Len(part)) :
     \A i \in 1..Len(part) : ToLowerChar(a[k + i]) = ToLowerChar(part[i])

\* whether a filter parameter constrains the list: when it is present, or
\* (emptyCounts = FALSE) only when it is present with a non-empty value
Given(v, emptyCounts) == v # Undefined /\ (emptyCounts \/ v # Str(<<>>))

\* the stored books a list request is about, in stored order
Matches(r, emptyCounts) ==
  LET ok(b) ==
        IF r.op = "searchBooksByGenre"
        THEN EqualIgnoringCase(b.genre, r.genre)
        ELSE /\ Given(r.query.genre, emptyCounts)
                  => EqualIgnoringCase(b.genre, r.query.genre.s)
             /\ Given(r.query.author, emptyCounts)
                  => ContainsIgnoringCase(b.author, r.query.author.s)
             /\ Given(r.query.title, emptyCounts)
                  => ContainsIgnoringCase(b.title, r.query.title.s)
  IN SelectSeq(Books, ok)

\* C6: for page >= 1 and pageSize >= 1 the response is 200 and its list is
\* the elements of the filtered list at positions [(page-1)*pageSize,
\* (page-1)*pageSize + pageSize): min(pageSize, total - (page-1)*pageSize) of
\* them when that is not negative and none otherwise.
C6_PageSlice ==
  (req.op \in ListOps /\ ValidPaging(req))
  => LET filtered == Matches(req, FALSE)
         from == (PageOf(req) - 1) * LimitOf(req)
         rest == Len(filtered) - from
         n == IF rest < 0 THEN 0 ELSE IF rest < LimitOf(req) THEN rest ELSE LimitOf(req)
     IN /\ res.status = 200
        /\ Len(res.books) = n
        /\ Len(res.books) <= LimitOf(req)
        /\ \A i \in 1..n : res.books[i] = filtered[from + i]

\* C6's cases: a last page shorter than the page size, and a page beyond it
C6_Witness ==
  /\ req.op \in ListOps /\ ValidPaging(req)
  /\ PageOf(req) = 2 /\ LimitOf(req) = 2
  /\ Len(res.books) = 1
  /\ Len(Matches(req, FALSE)) = 3

\* C7: for page >= 1 and pageSize >= 1, totalPages is the least n with
\* n*pageSize >= totalMatches, hasNextPage is page*pageSize < totalMatches and
\* hasPreviousPage is page > 1.
C7_PaginationMetadata ==
  (req.op \in ListOps /\ ValidPaging(req))
  => LET total == Len(Matches(req, FALSE))
         pg == res.pagination
     IN /\ res.status = 200
        /\ pg.totalBooks = total
        /\ pg.totalPages.t = "number"
        /\ pg.totalPages.n >= 0
        /\ pg.totalPages.n * LimitOf(req) >= total
        /\ pg.totalPages.n > 0 => (pg.totalPages.n - 1) * LimitOf(req) < total
        /\ pg.hasNextPage <=> (PageOf(req) * LimitOf(req) < total)
        /\ pg.hasPreviousPage <=> (PageOf(req) > 1)

\* C7's case: a middle page, with a page before it and a page after it
C7_Witness ==
  /\ req.op \in ListOps /\ ValidPaging(req)
  /\ res.status = 200
  /\ res.pagination.hasNextPage
  /\ res.pagination.hasPreviousPage
  /\ res.pagination.totalPages = Num(3)

\* C8: a list request whose page or limit is not a positive integer is
\* answered 400.
C8_BadPagingRejected ==
  (req.op \in ListOps /\ ~ValidPaging(req)) => res.status = 400

\* C9 as stated: with the default paging, getAllBooks returns the stored
\* books that match every parameter present in the query.
C9_FilterPresentParameters ==
  (/\ req.op = "getAllBooks"
   /\ req.query.page = Undefined
   /\ req.query.limit = Undefined)
  => (res.status = 200 /\ res.books = Matches(req, TRUE))

\* C9 amended: ... that match every parameter present in the query with a
\* non-empty value; an absent or empty parameter constrains nothing.
C9_FilterNonEmptyParameters ==
  (/\ req.op = "getAllBooks"
   /\ req.query.page = Undefined
   /\ req.query.limit = Undefined)
  => (res.status = 200 /\ res.books = Matches(req, FALSE))

\* C9's case: genre and author both given, matching by case variant and by
\* part, and keeping some books while dropping others
C9_Witness ==
  /\ req.op = "getAllBooks"
  /\ Given(req.query.genre, FALSE) /\ Given(req.query.author, FALSE)
  /\ res.status = 200
  /\ Len(res.books) = 2
  /\ Len(Books) = 3
  /\ \E i \in 1..Len(res.books) :
       /\ res.books[i].genre # req.query.genre.s
       /\ res.books[i].author # req.query.author.s

(***************************************************************************)
(* The users document (SpecUsernames).                                     *)
(***************************************************************************)
\* C11: no two records of the users document have usernames that are equal
\* ignoring case, also when a username was submitted with white space at an
\* end and stored trimmed.
C11_UsernamesUnique ==
  \A i, j \in 1..Len(Users) :
     i # j => ~EqualIgnoringCase(Users[i].username, Users[j].username)

\* C12: every username stored in the users document has between 3 and 20
\* characters.
C12_UsernameLength ==
  \A i \in 1..Len(Users) :
     Len(Users[i].username) >= 3 /\ Len(Users[i].username) <= 20

(***************************************************************************)
(* isValidPassword (SpecPassword).                                         *)
(***************************************************************************)
\* the characters of a text that lie in a set
CharsIn(text, set) == {i \in 1..Len(text) : text[i] \in set}

\* C13: isValidPassword accepts a password exactly when it has at least 6
\* characters, every character is a letter, a digit or one of @$!%*#?&, and
\* it has at least one letter and at least one digit; "abc123" passes,
\* "abcdef" and "123456" fail.
C13_PasswordRule ==
  (call.fn = "isValidPassword" /\ ret.done)
  => LET pw == call.arg
         allowed == Range(UpperCase) \cup Range(LowerCase) \cup Digits
                    \cup {"@", "$", "!", "%", "*", "#", "?", "&"}
     IN /\ ret.value
             <=> /\ Len(pw) >= 6
                 /\ Cardinality(CharsIn(pw, allowed)) = Len(pw)
                 /\ Cardinality(CharsIn(pw, Letters)) >= 1
                 /\ Cardinality(CharsIn(pw, Digits)) >= 1
        /\ pw = <<"a", "b", "c", "1", "2", "3">> => ret.value
        /\ pw = <<"a", "b", "c", "d", "e", "f">> => ~ret.value
        /\ pw = <<"1", "2", "3", "4", "5", "6">> => ~ret.value

\* C13's case: a password of letters, digits and a symbol was accepted
C13_Witness ==
  /\ call.fn = "isValidPassword"
  /\ ret.done
  /\ ret.value
  /\ CharsIn(call.arg, PasswordSymbols) # {}
  /\ Len(call.arg) = 6

(***************************************************************************)
(* Overlapping requests (SpecRace, SpecRaceBooks).                         *)
(***************************************************************************)
\* this step sends the response of the pending request p
Completes(p) ==
  /\ p \in inflight
  /\ p.phase = "read"
  /\ Responded(p, res'.status) \in inflight'

\* the records of a document whose email equals the given one ignoring case
WithEmail(users, email) ==
  {i \in 1..Len(users) : EqualIgnoringCase(users[i].email, email)}

Ids(records) == {records[i].id : i \in 1..Len(records)}

\* q is a registration answered 201 with the email of the pending p, and it
\* wrote after p read: each of the two read before either wrote
RacedWith(p, q) ==
  /\ p.op = "registerUser" /\ q.op = "registerUser"
  /\ q.phase = "responded" /\ q.status = 201
  /\ EqualIgnoringCase(q.req.body.email.s, p.req.body.email.s)
  /\ q.id \notin Ids(p.data)

\* C14 as stated: when two registrations with the same email both read the
\* users document before either writes it, both pass the duplicate check and
\* the document then holds two records with that email.
C14_RaceStoresDuplicates ==
  [][\A p \in inflight :
       (Completes(p) /\ \E q \in inflight : RacedWith(p, q))
       => /\ res'.status = 201
          /\ Cardinality(WithEmail(usersFile'.data, p.req.body.email.s)) >= 2]_vars

\* C14 amended: ... both pass the duplicate check and both are answered 201,
\* and the document then holds one record with that email, the record of
\* the request that wrote last.
C14_RaceKeepsLastWriter ==
  [][\A p \in inflight :
       (Completes(p) /\ \E q \in inflight : RacedWith(p, q))
       => /\ res'.status = 201
          /\ \E i \in 1..Len(usersFile'.data) :
               /\ usersFile'.data[i].id = p.id
               /\ WithEmail(usersFile'.data, p.req.body.email.s) = {i}]_vars

\* C14's case: two registrations with one email, each having read before
\* the other wrote, were both answered 201
C14_Witness ==
  \E p, q \in inflight :
     /\ p # q
     /\ p.op = "registerUser" /\ p.phase = "responded" /\ p.status = 201
     /\ RacedWith(p, q)
     /\ p.id \notin Ids(q.data)
     /\ p.id \in Ids(Users)
     /\ q.id \notin Ids(Users)

\* the document a request writes
DocumentOf(p, users, books) == IF p.op = "registerUser" THEN users ELSE books

\* C15: when a request writes a document that another request has written
\* since it was read, both are answered success and the persisted document
\* is the one that was read plus the writer's own record: what the other
\* request added is lost.
C15_LostUpdate ==
  [][\A p \in inflight :
       Completes(p)
       => LET before == DocumentOf(p, usersFile.data, booksFile.data)
              after == DocumentOf(p, usersFile'.data, booksFile'.data)
          IN /\ res'.status = 201
             /\ Ids(after) = Ids(p.data) \cup {p.id}
             /\ \A id \in Ids(before) \ Ids(p.data) :
                  /\ id \notin Ids(after)
                  /\ \E q \in inflight :
                       q.op = p.op /\ q.id = id /\ q.status = 201]_vars

\* C15's case: two addBook requests were answered 201, each having read
\* the document before the other wrote it, and the document holds the book
\* of one of the two only
C15_Witness ==
  \E p, q \in inflight :
     /\ p.op = "addBook" /\ q.op = "addBook"
     /\ p.status = 201 /\ q.status = 201
     /\ p.id \notin Ids(q.data) /\ q.id \notin Ids(p.data)
     /\ p.id \in Ids(Books)
     /\ q.id \notin Ids(Books)

(***************************************************************************)
(* Validation and the state of the files (SpecStore, SpecFields).          *)
(***************************************************************************)
\* C16: a registerUser, addBook or updateBook request that validation
\* rejects (400) writes neither document, whatever state the files are in.
C16_RejectedWritesNothing ==
  [][(/\ req'.op \in {"registerUser", "addBook", "updateBook"}
      /\ res'.status = 400)
     => (usersFile' = usersFile /\ booksFile' = booksFile)]_vars

\* the operations on the users document and those on the books document
UserOps == {"registerUser", "loginUser", "updateUser"}

\* C17: when the users or books file is not decodable, every operation on
\* that document answers 500 and leaves the file as it is.
C17_CorruptNotRecovered ==
  [][/\ (usersFile = CorruptFile /\ req'.op \in UserOps)
          => (res'.status = 500 /\ usersFile' = CorruptFile)
     /\ (booksFile = CorruptFile /\ req'.op \in BookOps)
          => (res'.status = 500 /\ booksFile' = CorruptFile)]_vars

\* C18: every book of the books document has a publishedYear that is an
\* integer between 1000 and the current year.
C18_YearInRange ==
  \A i \in 1..Len(Books) :
     /\ Books[i].publishedYear.t = "number"
     /\ Books[i].publishedYear.n >= 1000
     /\ Books[i].publishedYear.n <= CurrentYear

C20_RoundTrip ==
  (call.fn = "roundTrip" /\ ret.done) => ret.value = call.arg

(***************************************************************************)
(* Initialization of a document (SpecInitRace).                            *)
(***************************************************************************)
\* C21: a request that initializes the books document creates an empty
\* collection when the file is absent and leaves a decodable document as it
\* is, and no step replaces persisted records by an empty collection, also
\* when the initialization overlaps a request that writes the document.
C21_InitializeKeepsRecords ==
  [][/\ (req'.op = "getAllBooks" /\ booksFile = AbsentFile)
          => booksFile' = writeJSONFile(<<>>)
     /\ (req'.op = "getAllBooks" /\ booksFile.st = "ok")
          => booksFile' = booksFile
     /\ (booksFile.st = "ok" /\ booksFile.data # <<>>)
          => booksFile'.data # <<>>]_vars

(***************************************************************************)
(* updateBook and updateUser (SpecUpdate).                                 *)
(***************************************************************************)
\* a field of the body counts as sent: when it is present, or
\* (falsyCounts = FALSE) only when it is present and not "" or 0
Sent(v, falsyCounts) ==
  v # Undefined /\ (falsyCounts \/ v \notin {Str(<<>>), Num(0)})

\* a successful updateBook of the book at position i changed that book and
\* nothing else: the fields sent hold the value sent (text trimmed, year as
\* an integer) and every other field is as it was
PatchedAt(i, falsyCounts) ==
  LET old == booksFile.data[i]
      new == booksFile'.data[i]
      body == req'.body
  IN /\ Len(booksFile'.data) = Len(booksFile.data)
     /\ \A j \in 1..Len(booksFile.data) : j # i => booksFile'.data[j] = booksFile.data[j]
     /\ new.id = old.id
     /\ new.userId = old.userId
     /\ new.title = IF Sent(body.title, falsyCounts)
                    THEN trim(body.title.s) ELSE old.title
     /\ new.author = IF Sent(body.author, falsyCounts)
                     THEN trim(body.author.s) ELSE old.author
     /\ new.genre = IF Sent(body.genre, falsyCounts)
                    THEN trim(body.genre.s) ELSE old.genre
     /\ new.publishedYear = IF Sent(body.publishedYear, falsyCounts)
                            THEN body.publishedYear ELSE old.publishedYear

WithoutFalsy(body) ==
  [f \in DOMAIN body |-> IF Sent(body[f], FALSE) THEN body[f] ELSE Undefined]

\* C23: in updateBook and updateUser a field sent as "" or 0 is the same as
\* a field that was not sent: the response and the document are those of
\* the request without that field; when nothing else is sent, the update of
\* an existing record by its owner answers 200 and stores what was stored.
C23_FalsyIsNotSent ==
  [][/\ (req'.op = "updateBook" /\ req'.user # NoUser)
          => LET out == updateBook(booksFile, req'.id, WithoutFalsy(req'.body),
                                   req'.user)
             IN /\ res' = out.res
                /\ booksFile' = out.file
                /\ (/\ WithoutFalsy(req'.body) = EmptyBody
                    /\ \E i \in 1..Len(Books) :
                         /\ Books[i].id = req'.id
                         /\ Books[i].userId = req'.user.userId)
                   => (res'.status = 200 /\ booksFile' = booksFile)
     /\ req'.op = "updateUser"
          => LET out == updateUser(usersFile, req'.id, WithoutFalsy(req'.body))
             IN /\ res' = out.res
                /\ usersFile' = out.file
                /\ (/\ WithoutFalsy(req'.body) = EmptyBody
                    /\ \E i \in 1..Len(Users) : Users[i].id = req'.id)
                   => (res'.status = 200 /\ usersFile' = usersFile)]_vars

\* C23's case: an updateBook that sent only "" and 0 was answered 200 with
\* the book as it was stored
C23_Witness ==
  /\ req.op = "updateBook"
  /\ res.status = 200
  /\ req.body.title = Str(<<>>)
  /\ req.body.publishedYear = Num(0)
  /\ \E i \in 1..Len(Books) :
       /\ Books[i].id = req.id
       /\ Books[i].title # <<>>
       /\ Books[i].publishedYear # Num(0)
       /\ res.books = <<Books[i]>>

(***************************************************************************)
(* Tokens (SpecSecret).                                                    *)
(***************************************************************************)
\* C24: with JWT_SECRET set or unset, a token that a successful loginUser
\* returned, presented as the cookie before it expires, is accepted by
\* isAuthenticated and req.user.userId is the id of the user who logged in.
C24_IssuedTokenAccepted ==
  (req.op \in ProtectedOps /\ req.cookie \in issued)
  => /\ res.by = "controller"
     /\ req.user.userId = req.cookie.userId
     /\ \E i \in 1..Len(Users) :
          Users[i].id = req.user.userId /\ Users[i].email = req.cookie.email

(***************************************************************************)
(* Order and ownership of the stored books (SpecOwner).                    *)
(***************************************************************************)
\* C25: addBook appends the new book at the end, deleteBook removes exactly
\* the book with the given id, updateBook keeps every book in its place, and
\* the stored books are always in the order in which they were created
\* (identifiers are handed out in increasing order).
C25_InsertionOrder ==
  [][LET before == booksFile.data
         after == booksFile'.data
         others(b) == b.id # req'.id
     IN /\ (req'.op = "addBook" /\ res'.status = 201)
             => /\ Len(after) = Len(before) + 1
                /\ SubSeq(after, 1, Len(before)) = before
                /\ after[Len(after)].id \notin Ids(before)
        /\ (req'.op = "deleteBook" /\ res'.status = 200)
             => /\ Len(after) = Len(before) - 1
                /\ after = SelectSeq(before, others)
        /\ (req'.op = "updateBook" /\ res'.status = 200)
             => /\ Len(after) = Len(before)
                /\ \A i \in 1..Len(before) : after[i].id = before[i].id
        /\ \A i, j \in 1..Len(after) : i < j => after[i].id < after[j].id]_vars

\* C25's case: the first of two books was deleted and the second is left
C25_Witness ==
  /\ req.op = "deleteBook"
  /\ res.status = 200
  /\ req.id = 1
  /\ Len(Books) = 1
  /\ Books[1].id = 2

\* C26: a book stored by addBook has the userId of the token of the request
\* that created it, and no later request changes the id or the userId of a
\* stored book, whatever id or userId its body carries.
C26_OwnerFixed ==
  [][LET before == booksFile.data
         after == booksFile'.data
     IN /\ (req'.op = "addBook" /\ res'.status = 201)
             => /\ req'.cookie \in issued
                /\ after[Len(after)].userId = req'.cookie.userId
                /\ after[Len(after)].id \notin Ids(before)
        /\ \A i \in 1..Len(before) :
             \/ \E j \in 1..Len(after) :
                  /\ after[j].id = before[i].id
                  /\ after[j].userId = before[i].userId
             \/ /\ req'.op = "deleteBook"
                /\ res'.status = 200
                /\ req'.id = before[i].id
        /\ Len(after) <= Len(before) + 1]_vars

\* C26's case: the owner's updateBook carried another userId and another id,
\* was answered 200, and the book still has its id and its owner
C26_Witness ==
  /\ req.op = "updateBook"
  /\ res.status = 200
  /\ \E i \in 1..Len(Books) :
       /\ Books[i].id = req.id
       /\ Books[i].userId = req.user.userId
       /\ req.body.userId \notin {Undefined, Num(Books[i].userId)}
       /\ req.body.id \notin {Undefined, Num(Books[i].id)}

(***************************************************************************)
(* Login (SpecLogin).                                                      *)
(***************************************************************************)
\* the password each email of LoginRegisterBodies is registered with
RegisteredPassword(email) ==
  IF toLowerCase(email) = EmailA THEN GoodPassword ELSE LongPassword

StoredUserFor(email) ==
  {i \in 1..Len(Users) : SameEmail(Users[i], email)}

\* C27: while the record of a user registered with email e and password p is
\* stored, loginUser with any upper/lower-case variant of e and password p is
\* answered 200 with a token, and with any other password it is answered 401.
C27_LoginAfterRegister ==
  (req.op = "loginUser" /\ StoredUserFor(req.body.email.s) # {})
  => IF req.body.password.s = RegisteredPassword(req.body.email.s)
     THEN res.status = 200 /\ res.token # NoToken
     ELSE res.status = 401

\* C28: loginUser answers an email of no stored user and a stored email with
\* a wrong password alike: 401, the same message, no token and no cookie.
C28_SameRefusal ==
  (/\ req.op = "loginUser"
   /\ \/ StoredUserFor(req.body.email.s) = {}
      \/ req.body.password.s # RegisteredPassword(req.body.email.s))
  => res = Response(401, "Invalid email or password")

(***************************************************************************)
(* Responses of the user operations (SpecAccounts).                        *)
(***************************************************************************)
AccountOps ==
  {"registerUser", "loginUser", "getAllUsers", "getUserById", "updateUser"}

Stripped(user) == [f \in DOMAIN user \ {"password"} |-> user[f]]

\* C29: no response of registerUser, loginUser, getAllUsers, getUserById or
\* updateUser carries a password hash: every user object in a response is a
\* stored record without its password field.
C29_NoPasswordInResponse ==
  req.op \in AccountOps
  => \A i \in 1..Len(res.users) :
       /\ "password" \notin DOMAIN res.users[i]
       /\ \E j \in 1..Len(Users) : res.users[i] = Stripped(Users[j])

\* C29's case: getAllUsers listed two stored users, one of them updated
C29_Witness ==
  /\ req.op = "getAllUsers"
  /\ res.status = 200
  /\ Len(res.users) = 2
  /\ \A j \in 1..Len(Users) : Users[j].password.alg = "bcrypt"
  /\ \E j \in 1..Len(Users) : Users[j].username = <<"a", "n", "n">>

(***************************************************************************)
(* Search by genre and the filtered listing (SpecSearch).                  *)
(***************************************************************************)
SameListing(a, b) ==
  /\ a.status = b.status
  /\ a.books = b.books
  /\ a.pagination = b.pagination

\* C30: on every books document, searchBooksByGenre with a non-empty genre g,
\* a page and a limit answers with the same status, books and pagination as
\* getAllBooks with genre = g, that page and limit and no other filter.
C30_SearchIsFilteredList ==
  /\ \A g \in SearchGenres, query \in SearchQueries :
       SameListing(searchBooksByGenre(booksFile, g, query).res,
                   getAllBooks(booksFile, [query EXCEPT !.genre = Str(g)]).res)
  /\ req.op = "searchBooksByGenre"
       => SameListing(res, getAllBooks(booksFile,
                                       [req.query EXCEPT !.genre = Str(req.genre)]).res)
  /\ (req.op = "getAllBooks" /\ Truthy(req.query.genre))
       => SameListing(res, searchBooksByGenre(booksFile, req.query.genre.s,
                                              [req.query EXCEPT !.genre = Undefined]).res)

\* C30's case: a search answered 200 with one of two stored books, the other
\* one having a genre that contains the genre asked for
C30_Witness ==
  /\ req.op = "searchBooksByGenre"
  /\ req.genre = <<"f">>
  /\ res.status = 200
  /\ Len(res.books) = 1
  /\ Len(Books) = 2
  /\ \E i \in 1..Len(Books) : Books[i].genre = <<"F", "d">>

====
